---------------------------- MODULE Spec2Model ----------------------------
(***************************************************************************)
(* Wake-word voice capture pipeline of the snowleopard frontend:           *)
(*   - the voice page (src/unnamed/part_000, wake word "ollie"),           *)
(*   - the earlier voice page (app/voice/page.tsx, "hey johnny"),          *)
(*   - the combined camera + voice page (app/combined/page.tsx, "olly"),   *)
(*   - the transcription route handler (src/unnamed/part_003).             *)
(*                                                                         *)
(* Texts are TLA+ strings; the JavaScript string operations the pages use  *)
(* (toLowerCase, includes, slice, trim, replace) are computed on them.     *)
(***************************************************************************)
EXTENDS Integers, Sequences, FiniteSets, TLC

(***************************************************************************)
(* String operations                                                       *)
(***************************************************************************)

UpperLetters == "ABCDEFGHIJKLMNOPQRSTUVWXYZ"
LowerLetters == "abcdefghijklmnopqrstuvwxyz"

\* characters a..b of t (1-based, inclusive), clamped to the text
substring(t, a, b) ==
    LET lo == IF a < 1 THEN 1 ELSE a
        hi == IF b > Len(t) THEN Len(t) ELSE b
    IN  IF lo > hi THEN "" ELSE SubSeq(t, lo, hi)

charAt(t, i) == substring(t, i, i)

toLowerChar(c) ==
    IF \E i \in 1..Len(UpperLetters) : charAt(UpperLetters, i) = c
    THEN charAt(LowerLetters, CHOOSE i \in 1..Len(UpperLetters) : charAt(UpperLetters, i) = c)
    ELSE c

RECURSIVE toLowerCase(_)
toLowerCase(t) ==
    IF t = "" THEN ""
    ELSE toLowerChar(charAt(t, 1)) \o toLowerCase(substring(t, 2, Len(t)))

\* String.prototype.includes for a non-empty needle
includes(t, w) == \E i \in 1..(Len(t) - Len(w) + 1) : substring(t, i, i + Len(w) - 1) = w

\* t.slice(-n)
sliceLast(t, n) == IF Len(t) > n THEN substring(t, Len(t) - n + 1, Len(t)) ELSE t

isWhitespace(c) == c \in {" ", "\t", "\n"}

RECURSIVE trimStart(_)
trimStart(t) ==
    IF t # "" /\ isWhitespace(charAt(t, 1)) THEN trimStart(substring(t, 2, Len(t))) ELSE t

RECURSIVE trimEnd(_)
trimEnd(t) ==
    IF t # "" /\ isWhitespace(charAt(t, Len(t))) THEN trimEnd(substring(t, 1, Len(t) - 1)) ELSE t

trim(t) == trimEnd(trimStart(t))

\* number of whitespace characters of t starting at position i
RECURSIVE whitespaceRun(_, _)
whitespaceRun(t, i) ==
    IF i <= Len(t) /\ isWhitespace(charAt(t, i)) THEN 1 + whitespaceRun(t, i + 1) ELSE 0

\* t.replace(/\s+/g, ' ')
RECURSIVE collapseFrom(_, _)
collapseFrom(t, i) ==
    IF i > Len(t) THEN ""
    ELSE LET n == whitespaceRun(t, i)
         IN  IF n > 0 THEN " " \o collapseFrom(t, i + n)
             ELSE charAt(t, i) \o collapseFrom(t, i + 1)

collapseWhitespace(t) == collapseFrom(t, 1)

\* Length of the match of the case-insensitive regular expression re at
\* position i of t, 0 when it does not match there.  A literal matches its
\* own characters; "hey\\s+johnny" matches hey, one or more whitespace
\* characters, johnny.
matchLen(re, t, i) ==
    IF re = "hey\\s+johnny"
    THEN LET n == whitespaceRun(t, i + 3)
         IN  IF /\ toLowerCase(substring(t, i, i + 2)) = "hey"
                /\ n > 0
                /\ toLowerCase(substring(t, i + 3 + n, i + 3 + n + 5)) = "johnny"
             THEN 3 + n + 6
             ELSE 0
    ELSE IF i + Len(re) - 1 <= Len(t) /\ toLowerCase(substring(t, i, i + Len(re) - 1)) = re
         THEN Len(re)
         ELSE 0

\* t.replace(new RegExp(re, 'gi'), ''): matches are removed left to right,
\* the scan resuming after each match
RECURSIVE removeFrom(_, _, _)
removeFrom(re, t, i) ==
    IF i > Len(t) THEN ""
    ELSE LET n == matchLen(re, t, i)
         IN  IF n > 0 THEN removeFrom(re, t, i + n)
             ELSE charAt(t, i) \o removeFrom(re, t, i + 1)

removeAll(t, re) == removeFrom(re, t, 1)

(***************************************************************************)
(* Program constants                                                       *)
(***************************************************************************)

WakeBufferWindow == 50
SilenceTimeoutMs == 2000
minSamples == 800
maxSamples == 16000
targetSampleRate == 16000
FrameSize == 4096

(***************************************************************************)
(* Bounds of the model                                                     *)
(***************************************************************************)

MaxSessions == 2      \* startListening() invocations in a run of Spec
NetSessions == 1      \* startListening() invocations in a run of SpecNet
MaxSegEvents == 3     \* transcript events fed to the segmenter alone
MaxChunks == 2        \* audio chunks cut in a run of SpecNet
MaxPolls == 1         \* poll requests made in a run
MaxTurns == 2         \* messages the transcription service sends in a run
MaxBufChunks == 4     \* audio chunks cut in a run of SpecBuf
MaxFrameLen == 7       \* samples of a frame in SpecPcm
MaxPcmFrames == 2      \* frames converted in a run of SpecPcm
MaxMalformed == 1      \* malformed messages and entries in a run of SpecMsg
MsgChunks == 2         \* audio chunks cut in a run of SpecMsg
MsgTurns == 2          \* messages the service sends in a run of SpecMsg
MaxPlayEvents == 5    \* transcript events fed to the segmenter in SpecPlay
LifeChunks == 1       \* audio chunks cut in a run of Spec
MuteEvents == 2       \* transcript events fed to the segmenter in SpecMute
SrvRequests == 3      \* requests sent to the route handler in a run of SpecSrv
SrvTurns == 1         \* messages the service sends in a run of SpecSrv
MuteChunks == 2       \* audio chunks cut in a run of SpecMute

Variants == {"part000", "voice", "combined"}

Sid == 1..MaxSessions
NoSid == 0

\* const wakeWord of each page
wakeWord(v) ==
    CASE v = "part000"  -> "ollie"
      [] v = "voice"    -> "hey johnny"
      [] v = "combined" -> "olly"

\* the regular expression finalizeTranscript strips with
finalizeRegex(v) ==
    CASE v = "part000"  -> "ollie"
      [] v = "voice"    -> "hey\\s+johnny"
      [] v = "combined" -> "olly"

(***************************************************************************)
(* State                                                                   *)
(*   variant  the page that is running                                     *)
(*   limit    how far each specification lets the counters run             *)
(*   page     the component's state (useState) and refs (useRef)           *)
(*   tr       per startListening() invocation: the transcriber object and  *)
(*            the variables its closures captured                          *)
(*   timers   silence timers set and neither fired nor cleared             *)
(*   req      HTTP requests on their way to the route handler              *)
(*   resp     HTTP responses on their way to the page                      *)
(*   srv      the route handler's connection objects and activeConnections *)
(*   hist     what has been observed so far (history only)                 *)
(***************************************************************************)
VARIABLES variant, limit, page, tr, timers, req, resp, srv, hist

vars == <<variant, limit, page, tr, timers, req, resp, srv, hist>>

NoTimer == [text |-> "", sid |-> NoSid]

NoLimit == [sessions |-> 0, chunks |-> 0, polls |-> 0, turns |-> 0, events |-> 0,
            frames |-> 0, malformed |-> 0, requests |-> 0]

PageInit ==
    [ isListening          |-> FALSE,
      wakeWordDetected     |-> FALSE,
      isRecording          |-> FALSE,
      currentTranscript    |-> "",
      isPlayingAudio       |-> FALSE,
      error                |-> "",
      transcriberRef       |-> NoSid,
      streamRef            |-> NoSid,
      silenceTimerRef      |-> NoTimer,
      wakeWordDetectedRef  |-> FALSE,
      audioProcessorRef    |-> NoSid,
      audioSourceRef       |-> NoSid,
      audioContextRef      |-> NoSid,
      capturedImageRef     |-> 0,
      pendingCaptures      |-> {},
      pendingQueries       |-> 0,
      synthesizing         |-> 0,
      playing              |-> 0 ]

\* pc: "none" not invoked, "start" awaiting the start response, "mic" awaiting
\* getUserMedia, "live" transcriber built, "failed" the start request was
\* refused, "denied" getUserMedia was rejected
TrInit ==
    [ pc                   |-> "none",
      isReady              |-> FALSE,
      pollingInterval      |-> FALSE,
      wakeWordBuffer       |-> "",
      audioBuffer          |-> 0,
      sourceSampleRate     |-> targetSampleRate,
      capIsPlayingAudio    |-> FALSE,
      capWakeWordDetected  |-> FALSE,
      capIsRecording       |-> FALSE,
      trackLive            |-> FALSE,
      connected            |-> FALSE,
      chunks               |-> 0,
      polls                |-> 0,
      closes               |-> 0 ]

\* a connection object of the route handler (part_003 79-85) and its
\* WebSocket; active: the object is in activeConnections
\* the numbers of the entries of a queue
entryNumbers(ts) == [i \in 1..Len(ts) |-> ts[i].n]

SrvInit ==
    [ active      |-> FALSE,
      starting    |-> FALSE,
      ws          |-> "none",      \* readyState: connecting, open, closing, closed
      wsNull      |-> FALSE,       \* connection.ws = null
      isReady     |-> FALSE,
      expiresSet  |-> FALSE,       \* connection.expiresAt set by Begin
      expired     |-> FALSE,       \* the clock has passed expiresAt
      transcripts |-> << >>,
      pushed      |-> 0,           \* entries pushed to transcripts so far
      sent        |-> << >>,       \* chunks passed to ws.send, in order
      returned    |-> << >>,       \* entries put in audio and poll responses, in order
      terminal    |-> "none",      \* "answered": an audio request of the id got a
                                   \* terminal answer; "restarting": and a start
                                   \* has registered the id since; "none" once a
                                   \* start has succeeded
      lastAudio   |-> [before |-> "none", sessionExpired |-> FALSE] ]
                                   \* the last audio answer: terminal before it,
                                   \* and whether it said sessionExpired

HistInit ==
    [ emitted    |-> << >>,    \* utterances handed to processQuery, in order
      wakes      |-> 0,        \* 'Wake word detected' notifications
      events     |-> 0,        \* transcript events the callbacks received
      delivered  |-> [s \in Sid |-> << >>],  \* numbers of the events each
                                            \* transcriber's callback received
      errors     |-> [s \in Sid |-> 0],   \* onError calls per transcriber
      lastFrame  |-> [sid |-> NoSid, playing |-> FALSE, outcome |-> "none",
                      before |-> 0, added |-> 0, sent |-> 0, after |-> 0],
                               \* the last frame: buffer length before it, samples
                               \* it added, size of the chunk cut, length after
      lastEvent  |-> [state |-> "none", text |-> "", armed |-> FALSE,
                      detected |-> FALSE, buffer |-> "", notified |-> 0,
                      armedByEvent |-> FALSE, before |-> "", after |-> ""],
      prevEvent  |-> [state |-> "none", text |-> "", armed |-> FALSE,
                      detected |-> FALSE, buffer |-> "", notified |-> 0,
                      armedByEvent |-> FALSE, before |-> "", after |-> ""],
                               \* the last two events: the segmenter state and wake
                               \* buffer each found, its text, whether it detected
                               \* and armed, the utterance before and after it
      afterStop  |-> [s \in Sid |-> FALSE],  \* s was started when every earlier
                                            \* session had ended, one by a stop
      terminal   |-> [s \in Sid |-> [seen |-> FALSE, chunks |-> 0]],
                               \* an audio send of s was answered 410 or
                               \* sessionExpired, and the chunks cut by then
      failure    |-> [s \in Sid |-> [name |-> "", messages |-> << >>]],
                               \* the exception the catch block of startListening
                               \* caught, and the messages it reported
      frames     |-> 0,        \* frames whose samples were converted
      conversion |-> [input |-> << >>, rate |-> 0, resampled |-> << >>,
                      pcm16 |-> << >>, indices |-> {}],
                               \* the last frame converted: its samples, the source
                               \* rate, the resampled and the PCM16 samples, and the
                               \* indices of the frame that were read
      malformed  |-> 0,        \* malformed messages the route handler received
      unknown    |-> 0,        \* responses with an entry of unknown type the page
                               \* received
      requests   |-> 0,        \* requests sent to the route handler by any client
      captured   |-> {},       \* the detections whose snapshot was captured
      failed     |-> {},       \* the detections whose snapshot failed
      teardown   |-> << >>,    \* what the last stopListening() that had anything to
                               \* tear down did, in the order it did it
      lastRecorded |-> "",     \* the text, wake word removed, of the last RECORDING
                               \* event that had any
      lastClose  |-> [sid |-> NoSid, answer |-> 0, settled |-> "none"],
                               \* the last close() whose stop request ended: the
                               \* status it was answered with (0: fetch threw) and
                               \* how the promise of close() settled
      lastClear  |-> "none",   \* what cleared the playback flag last: "ended"
                               \* (onended, onerror) or "failed" (the catch block)
      lastFire   |-> [fired |-> FALSE, emitted |-> 0, awaiting |-> FALSE,
                      listening |-> FALSE, empty |-> FALSE, utterance |-> "",
                      reported |-> FALSE, captured |-> FALSE,
                      failed |-> FALSE] ]
                               \* the last timer that fired: queries it emitted,
                               \* the segmenter state, utterance and error report
                               \* it left, whether its text was empty once cleaned

\* the state the callbacks read and write, as one value
Cur == [page |-> page, tr |-> tr, timers |-> timers, req |-> req, hist |-> hist]

Apply(K) ==
    /\ page' = K.page
    /\ tr' = K.tr
    /\ timers' = K.timers
    /\ req' = K.req
    /\ hist' = K.hist

(***************************************************************************)
(* Segmenter: the transcript callback                                      *)
(***************************************************************************)

\* a detection that leaves the utterance as it is
wakeDetectedKeepsUtterance(K, s) ==
    [K EXCEPT !.page.wakeWordDetectedRef = TRUE,
              !.page.wakeWordDetected = TRUE,
              !.page.isRecording = TRUE,
              !.page.pendingCaptures =
                  IF variant = "combined" THEN @ \cup {K.hist.wakes + 1} ELSE @,
              !.hist.wakes = @ + 1]

\* what both detection branches do: part_000 419-423, combined 487-507
wakeDetected(K, s) ==
    [K EXCEPT !.page.wakeWordDetectedRef = TRUE,
              !.page.wakeWordDetected = TRUE,
              !.page.isRecording = TRUE,
              !.page.currentTranscript = "",
              !.page.pendingCaptures =
                  IF variant = "combined" THEN @ \cup {K.hist.wakes + 1} ELSE @,
              !.hist.wakes = @ + 1]

\* transcript.text with the wake word removed (part_000 452-458)
stripWakeWord(rawText) ==
    IF includes(toLowerCase(rawText), wakeWord(variant))
    THEN trim(removeAll(rawText, wakeWord(variant)))
    ELSE rawText

\* arming that leaves the previous timer pending
armSilenceTimerNoClear(K, s, text) ==
    LET t == [text |-> text, sid |-> s]
    IN  [K EXCEPT !.timers = @ \cup {t},
                  !.page.silenceTimerRef = t]

\* clearTimeout(silenceTimerRef.current); silenceTimerRef.current = setTimeout(...)
armSilenceTimer(K, s, text) ==
    LET t == [text |-> text, sid |-> s]
    IN  [K EXCEPT !.timers = (@ \ {K.page.silenceTimerRef}) \cup {t},
                  !.page.silenceTimerRef = t]

\* part_000 412-477 and combined 480-576 (transcriptionPaused is the value the
\* closure captured, false)
onTranscriptRef(K, s, rawText) ==
    LET text == toLowerCase(rawText)
        buf  == sliceLast(K.tr[s].wakeWordBuffer \o " " \o text, WakeBufferWindow)
    IN  IF rawText = "" THEN K
        ELSE IF ~K.page.wakeWordDetectedRef /\ includes(text, wakeWord(variant))
        THEN wakeDetected(K, s)
        ELSE IF ~K.page.wakeWordDetectedRef
        THEN IF includes(buf, wakeWord(variant))
             THEN wakeDetected([K EXCEPT !.tr[s].wakeWordBuffer = ""], s)
             ELSE [K EXCEPT !.tr[s].wakeWordBuffer = buf]
        ELSE LET transcriptText == stripWakeWord(rawText)
             IN  IF trim(transcriptText) # ""
                 THEN armSilenceTimer(
                          [K EXCEPT !.page.currentTranscript = transcriptText],
                          s, transcriptText)
                 ELSE K

\* a callback whose buffer keeps everything it was given
onTranscriptVoiceWholeBuffer(K, s, rawText) ==
    LET text == toLowerCase(rawText)
        buf  == K.tr[s].wakeWordBuffer \o " " \o text
        K1   == [K EXCEPT !.tr[s].wakeWordBuffer = buf]
    IN  IF rawText = "" THEN K
        ELSE IF ~K.tr[s].capWakeWordDetected /\ includes(buf, wakeWord(variant))
        THEN [K EXCEPT !.tr[s].wakeWordBuffer = "",
                       !.page.wakeWordDetected = TRUE,
                       !.page.isRecording = TRUE,
                       !.page.currentTranscript = "",
                       !.hist.wakes = @ + 1]
        ELSE IF K.tr[s].capIsRecording /\ K.tr[s].capWakeWordDetected
        THEN LET transcriptText == stripWakeWord(rawText)
                 prev == K.page.currentTranscript
                 newText == IF prev # "" THEN prev \o " " \o transcriptText
                            ELSE transcriptText
             IN  IF trim(transcriptText) # ""
                 THEN armSilenceTimer(
                          [K1 EXCEPT !.page.currentTranscript = newText],
                          s, newText)
                 ELSE K1
        ELSE K1

\* voice/page.tsx 302-367: wakeWordDetected and isRecording are the values of
\* the render whose startListening was called
onTranscriptVoice(K, s, rawText) ==
    LET text == toLowerCase(rawText)
        buf  == sliceLast(K.tr[s].wakeWordBuffer \o " " \o text, WakeBufferWindow)
        K1   == [K EXCEPT !.tr[s].wakeWordBuffer = buf]
    IN  IF rawText = "" THEN K
        ELSE IF ~K.tr[s].capWakeWordDetected /\ includes(buf, wakeWord(variant))
        THEN [K EXCEPT !.tr[s].wakeWordBuffer = "",
                       !.page.wakeWordDetected = TRUE,
                       !.page.isRecording = TRUE,
                       !.page.currentTranscript = "",
                       !.hist.wakes = @ + 1]
        ELSE IF K.tr[s].capIsRecording /\ K.tr[s].capWakeWordDetected
        THEN LET transcriptText == stripWakeWord(rawText)
                 prev == K.page.currentTranscript
                 newText == IF prev # "" THEN prev \o " " \o transcriptText
                            ELSE transcriptText
             IN  IF trim(transcriptText) # ""
                 THEN armSilenceTimer(
                          [K1 EXCEPT !.page.currentTranscript = newText],
                          s, newText)
                 ELSE K1
        ELSE K1

\* the callback registered with transcriber.on('transcript', ...)
onTranscript(K, s, rawText) ==
    IF variant = "voice" THEN onTranscriptVoice(K, s, rawText)
    ELSE onTranscriptRef(K, s, rawText)


(***************************************************************************)
(* Finalization and teardown                                               *)
(***************************************************************************)

\* setCurrentTranscript(''); setIsRecording(false); setWakeWordDetected(false);
\* wakeWordDetectedRef.current = false (the ref exists in part_000 and combined)
resetSegmenter(K) ==
    [K EXCEPT !.page.currentTranscript = "",
              !.page.isRecording = FALSE,
              !.page.wakeWordDetected = FALSE,
              !.page.wakeWordDetectedRef = FALSE]

\* a finalization that returns at once when nothing is left of the text
finalizeTranscriptNoReset(K, text) ==
    LET finalText   == trim(collapseWhitespace(text))
        cleanedText == trim(removeAll(finalText, finalizeRegex(variant)))
        imageBlob   == K.page.capturedImageRef
        query       == [text |-> cleanedText,
                        image |-> IF variant = "combined" THEN imageBlob ELSE 0,
                        wake |-> K.hist.wakes]
    IN  IF finalText = "" \/ cleanedText = "" THEN K
        ELSE IF variant = "combined" /\ imageBlob = 0
        THEN resetSegmenter(K)
        ELSE [resetSegmenter(K) EXCEPT
                 !.hist.emitted = Append(@, query),
                 !.page.pendingQueries = @ + 1]

\* finalizeTranscript(text): part_000 583-620, voice 481-509, combined 671-721.
\* The silence timer always passes a non-empty text, so text || currentTranscript
\* is text.
finalizeTranscript(K, text) ==
    LET finalText   == trim(collapseWhitespace(text))
        cleanedText == trim(removeAll(finalText, finalizeRegex(variant)))
        imageBlob   == K.page.capturedImageRef
        query       == [text |-> cleanedText,
                        image |-> IF variant = "combined" THEN imageBlob ELSE 0,
                        wake |-> K.hist.wakes]
    IN  IF finalText = "" THEN K
        ELSE IF cleanedText = ""
        THEN [resetSegmenter(K) EXCEPT
                 !.page.capturedImageRef = IF variant = "combined" THEN 0 ELSE @]
        ELSE IF variant = "combined" /\ imageBlob = 0
        THEN resetSegmenter(K)
        ELSE [resetSegmenter(K) EXCEPT
                 !.hist.emitted = Append(@, query),
                 !.page.pendingQueries = @ + 1]

\* the setTimeout callback: if (transcriptText.trim()) finalizeTranscript(...)
silenceTimerCallback(K, t) ==
    LET K1 == [K EXCEPT !.timers = @ \ {t}]
        K2 == IF trim(t.text) # "" THEN finalizeTranscript(K1, trim(t.text)) ELSE K1
    IN  [K2 EXCEPT !.hist.lastFire =
            [fired     |-> TRUE,
             emitted   |-> Len(K2.hist.emitted) - Len(K.hist.emitted),
             captured  |-> K.hist.wakes \in K.hist.captured,
             failed    |-> K.hist.wakes \in K.hist.failed,
             awaiting  |-> ~K2.page.wakeWordDetected,
             listening |-> K.page.isListening,
             empty     |-> trim(removeAll(trim(collapseWhitespace(trim(t.text))),
                                          finalizeRegex(variant))) = "",
             utterance |-> K2.page.currentTranscript,
             reported  |-> K2.page.error # K.page.error]]

\* transcriber.close(): part_000 372-394
close(K, s) ==
    [K EXCEPT !.tr[s].isReady = FALSE,
              !.tr[s].pollingInterval = FALSE,
              !.tr[s].closes = @ + 1,
              !.req = @ \cup {[kind |-> "stop", sid |-> s,
                               n |-> K.tr[s].closes + 1, samples |-> 0]}]

\* the steps stopListening() takes, in the order of its if statements
teardownSteps(p) ==
    (IF p.transcriberRef # NoSid THEN <<"transport">> ELSE << >>)
    \o (IF p.streamRef # NoSid THEN <<"tracks">> ELSE << >>)
    \o (IF p.silenceTimerRef # NoTimer THEN <<"timer">> ELSE << >>)
    \o (IF p.audioProcessorRef # NoSid THEN <<"processor">> ELSE << >>)
    \o (IF p.audioSourceRef # NoSid THEN <<"source">> ELSE << >>)
    \o (IF p.audioContextRef # NoSid THEN <<"context">> ELSE << >>)

\* a teardown that leaves the refs as they are
stopListeningKeepsRefs(K) ==
    LET p  == K.page
        K1 == IF p.transcriberRef # NoSid THEN close(K, p.transcriberRef) ELSE K
        K2 == IF p.streamRef # NoSid
              THEN [K1 EXCEPT !.tr[p.streamRef].trackLive = FALSE] ELSE K1
        K3 == [K2 EXCEPT !.timers = @ \ {p.silenceTimerRef}]
        K4 == IF p.audioProcessorRef # NoSid
              THEN [K3 EXCEPT !.tr[p.audioProcessorRef].connected = FALSE] ELSE K3
    IN  [resetSegmenter(K4) EXCEPT
            !.page.isListening = FALSE,
            !.hist.teardown = IF teardownSteps(p) = << >> THEN @
                              ELSE teardownSteps(p)]

\* stopListening(): part_000 622-661, combined 723-761; voice 511-528 holds no
\* audio graph refs
stopListening(K) ==
    LET p  == K.page
        K1 == IF p.transcriberRef # NoSid THEN close(K, p.transcriberRef) ELSE K
        K2 == IF p.streamRef # NoSid
              THEN [K1 EXCEPT !.tr[p.streamRef].trackLive = FALSE] ELSE K1
        K3 == [K2 EXCEPT !.timers = @ \ {p.silenceTimerRef}]
        K4 == IF p.audioProcessorRef # NoSid
              THEN [K3 EXCEPT !.tr[p.audioProcessorRef].connected = FALSE] ELSE K3
    IN  [resetSegmenter(K4) EXCEPT
            !.page.transcriberRef = NoSid,
            !.page.streamRef = NoSid,
            !.page.silenceTimerRef = NoTimer,
            !.page.audioProcessorRef = NoSid,
            !.page.audioSourceRef = NoSid,
            !.page.audioContextRef = NoSid,
            !.page.isListening = FALSE,
            !.hist.teardown = IF teardownSteps(p) = << >> THEN @
                              ELSE teardownSteps(p)]

(***************************************************************************)
(* Actions every specification shares                                      *)
(***************************************************************************)

\* the 2000 ms deadline of a pending silence timer passes
SilenceTimerFires ==
    /\ \E t \in timers : Apply(silenceTimerCallback(Cur, t))
    /\ UNCHANGED <<variant, limit, resp, srv>>

\* combined 494-507: the promise of captureSnapshot() settles
CaptureSettles ==
    /\ \E c \in page.pendingCaptures, ok \in BOOLEAN :
          LET K1 == [Cur EXCEPT !.page.pendingCaptures = @ \ {c}]
          IN  Apply(IF ok
                    THEN [K1 EXCEPT !.page.capturedImageRef = c,
                                    !.hist.captured = @ \cup {c}]
                    ELSE [K1 EXCEPT !.page.wakeWordDetectedRef = FALSE,
                                    !.page.wakeWordDetected = FALSE,
                                    !.page.isRecording = FALSE,
                                    !.hist.failed = @ \cup {c}])
    /\ UNCHANGED <<variant, limit, resp, srv>>

(***************************************************************************)
(* SpecSeg: the segmenter of a started session fed transcript events       *)
(***************************************************************************)

\* every way of cutting the wake word in two
wakeWordSplits(v) ==
    UNION {{substring(wakeWord(v), 1, k), substring(wakeWord(v), k + 1, Len(wakeWord(v)))} :
              k \in 1..(Len(wakeWord(v)) - 1)}

\* event texts: the wake word (as spoken, capitalised), its pieces, a query,
\* a text longer than the window, the end of the two-word wake phrase
\* followed by more text than the window holds, and texts in which removing
\* the wake word leaves the wake word, once and twice over
SegTexts(v) ==
    wakeWordSplits(v) \cup
    { IF v = "voice" THEN "Hey Johnny" ELSE IF v = "part000" THEN "Ollie" ELSE "Olly",
      "turn the lights",
      "please tell me what the weather is like in the city" } \cup
    (IF v = "voice"
     THEN {"johnny what will the weather be like in the city"} ELSE {}) \cup
    (IF v = "part000" THEN {"olollielie", "ololollielielie"} ELSE {})

SegInit ==
    /\ variant \in Variants
    /\ limit = [NoLimit EXCEPT !.events = MaxSegEvents]
    /\ page = [PageInit EXCEPT
                  !.isListening = TRUE,
                  !.transcriberRef = 1,
                  !.streamRef = 1,
                  !.audioProcessorRef = IF variant = "voice" THEN NoSid ELSE 1,
                  !.audioSourceRef = IF variant = "voice" THEN NoSid ELSE 1,
                  !.audioContextRef = IF variant = "voice" THEN NoSid ELSE 1]
    /\ tr = [s \in Sid |->
                IF s = 1
                THEN [TrInit EXCEPT !.pc = "live", !.isReady = TRUE,
                                    !.pollingInterval = TRUE, !.trackLive = TRUE,
                                    !.connected = TRUE]
                ELSE TrInit]
    /\ timers = {}
    /\ req = {}
    /\ resp = {}
    /\ srv = [s \in Sid |-> SrvInit]
    /\ hist = HistInit

\* what an event found and what it left behind
observed(K, K1, rawText) ==
    [K1 EXCEPT !.hist.events = @ + 1,
               !.hist.lastRecorded =
                   IF /\ K.page.wakeWordDetected
                      /\ K1.hist.wakes = K.hist.wakes
                      /\ trim(stripWakeWord(rawText)) # ""
                   THEN stripWakeWord(rawText) ELSE @,
               !.hist.prevEvent = K.hist.lastEvent,
               !.hist.lastEvent =
                   [state |-> IF K.page.wakeWordDetected THEN "RECORDING"
                              ELSE "AWAITING_WAKE_WORD",
                    text  |-> rawText,
                    armed |-> K1.page.silenceTimerRef \in K1.timers,
                    detected |-> K1.hist.wakes > K.hist.wakes,
                    buffer |-> K.tr[1].wakeWordBuffer,
                    notified |-> K1.hist.wakes - K.hist.wakes,
                    armedByEvent |-> \/ K1.timers # K.timers
                                     \/ K1.page.silenceTimerRef # K.page.silenceTimerRef,
                    before |-> K.page.currentTranscript,
                    after |-> K1.page.currentTranscript]]

\* the transcriber hands one transcript event to the registered callback
SegTranscript ==
    /\ hist.events < limit.events
    /\ \E text \in SegTexts(variant) :
          Apply(observed(Cur, onTranscript(Cur, 1, text), text))
    /\ UNCHANGED <<variant, limit, resp, srv>>

SegNext ==
    \/ SegTranscript
    \/ SilenceTimerFires
    \/ CaptureSettles

SpecSeg == SegInit /\ [][SegNext]_vars

(***************************************************************************)
(* Dispatcher: the transcriber object of part_000 289-404                  *)
(***************************************************************************)

\* transcriber.on('error', ...): part_000 479-485
onError(K, s) ==
    [stopListening([K EXCEPT !.page.error = "transcription"]) EXCEPT
        !.hist.errors[s] = @ + 1]

\* data.transcripts.forEach(...): part_000 315-327 and 351-364
RECURSIVE forEachTranscript(_, _, _)
forEachTranscript(K, s, ts) ==
    IF ts = << >> THEN K
    ELSE LET e  == Head(ts)
             K1 == IF e.type \in {"PartialTranscript", "FinalTranscript"}
                   THEN [onTranscript(K, s, e.text) EXCEPT
                            !.hist.delivered[s] = Append(@, e.n)]
                   ELSE IF e.type = "error" THEN onError(K, s)
                   ELSE K
         IN  forEachTranscript(K1, s, Tail(ts))

\* a continuation that looks at the status code alone
audioResponseStatusOnly(K, r) ==
    IF r.status = 200 THEN forEachTranscript(K, r.sid, r.transcripts)
    ELSE IF r.status = 410
    THEN [onError(K, r.sid) EXCEPT !.tr[r.sid].isReady = FALSE]
    ELSE K

\* the continuation of sendAudio after await fetch: part_000 310-337
audioResponse(K, r) ==
    IF r.status = 200 THEN forEachTranscript(K, r.sid, r.transcripts)
    ELSE IF r.sessionExpired \/ r.status = 410
    THEN [onError(K, r.sid) EXCEPT !.tr[r.sid].isReady = FALSE]
    ELSE K

\* the continuation of a poll after await fetch: part_000 347-366
pollResponse(K, r) ==
    IF r.status = 200 THEN forEachTranscript(K, r.sid, r.transcripts) ELSE K

\* a length rounded to the nearest integer
resampledLengthRounded(n, sourceSampleRate) ==
    IF sourceSampleRate # targetSampleRate
    THEN (2 * n * targetSampleRate + sourceSampleRate) \div (2 * sourceSampleRate)
    ELSE n

\* Math.floor(audioData.length / resampleRatio): part_000 530-545
resampledLength(n, sourceSampleRate) ==
    IF sourceSampleRate # targetSampleRate
    THEN (n * targetSampleRate) \div sourceSampleRate
    ELSE n

\* a buffer flush with no lower threshold
sendBufferedAudioNoMin(K, s) ==
    LET len == K.tr[s].audioBuffer
        samplesToSend == IF len < maxSamples THEN len ELSE maxSamples
    IN  IF len >= 1 /\ K.tr[s].isReady
        THEN [K EXCEPT !.tr[s].audioBuffer = len - samplesToSend,
                       !.tr[s].chunks = @ + 1,
                       !.req = @ \cup {[kind |-> "audio", sid |-> s,
                                        n |-> K.tr[s].chunks + 1,
                                        samples |-> samplesToSend]}]
        ELSE K

\* a buffer flush that sends the least it may
sendBufferedAudioMinChunk(K, s) ==
    LET len == K.tr[s].audioBuffer
        samplesToSend == minSamples
    IN  IF len >= minSamples /\ K.tr[s].isReady
        THEN [K EXCEPT !.tr[s].audioBuffer = len - samplesToSend,
                       !.tr[s].chunks = @ + 1,
                       !.req = @ \cup {[kind |-> "audio", sid |-> s,
                                        n |-> K.tr[s].chunks + 1,
                                        samples |-> samplesToSend]}]
        ELSE K

\* sendBufferedAudio: part_000 506-515
sendBufferedAudio(K, s) ==
    LET len == K.tr[s].audioBuffer
        samplesToSend == IF len < maxSamples THEN len ELSE maxSamples
    IN  IF len >= minSamples /\ K.tr[s].isReady
        THEN [K EXCEPT !.tr[s].audioBuffer = len - samplesToSend,
                       !.tr[s].chunks = @ + 1,
                       !.req = @ \cup {[kind |-> "audio", sid |-> s,
                                        n |-> K.tr[s].chunks + 1,
                                        samples |-> samplesToSend]}]
        ELSE K

\* processor.onaudioprocess: part_000 520-561.  isPlayingAudio is the value
\* of the render whose startListening was called.
onaudioprocess(K, s) ==
    LET gated == ~K.tr[s].isReady \/ K.tr[s].capIsPlayingAudio
        K1 == IF gated THEN K
              ELSE sendBufferedAudio(
                       [K EXCEPT !.tr[s].audioBuffer =
                            @ + resampledLength(FrameSize, K.tr[s].sourceSampleRate)],
                       s)
        new == K1.req \ K.req
    IN  [K1 EXCEPT !.hist.lastFrame =
            [sid |-> s, playing |-> K.page.isPlayingAudio,
             outcome |-> IF gated THEN "dropped" ELSE "processed",
             before |-> K.tr[s].audioBuffer,
             added |-> IF gated THEN 0
                       ELSE resampledLength(FrameSize, K.tr[s].sourceSampleRate),
             sent |-> IF new = {} THEN 0 ELSE (CHOOSE r \in new : TRUE).samples,
             after |-> K1.tr[s].audioBuffer]]

(***************************************************************************)
(* Resampling and PCM16 conversion: part_000 526-551, voice 424-448.       *)
(* A sample of the frame is the integer k standing for k / SampleScale; a  *)
(* resampled sample is the integer n standing for                          *)
(* n / (SampleScale * targetSampleRate).                                   *)
(***************************************************************************)

SampleScale == 65536

min2(a, b) == IF a < b THEN a ELSE b
max2(a, b) == IF a > b THEN a ELSE b

\* Math.floor(i * resampleRatio), i counted from 0
srcIndexFloor(i, sourceSampleRate) == (i * sourceSampleRate) \div targetSampleRate

\* Math.min(srcIndexFloor + 1, audioData.length - 1)
srcIndexCeil(i, sourceSampleRate, length) ==
    min2(srcIndexFloor(i, sourceSampleRate) + 1, length - 1)

\* srcIndex - srcIndexFloor, in units of 1 / targetSampleRate
fraction(i, sourceSampleRate) == (i * sourceSampleRate) % targetSampleRate

\* audioData[srcIndexFloor] * (1 - fraction) + audioData[srcIndexCeil] * fraction
interpolated(audioData, i, sourceSampleRate) ==
    audioData[srcIndexFloor(i, sourceSampleRate) + 1]
        * (targetSampleRate - fraction(i, sourceSampleRate))
    + audioData[srcIndexCeil(i, sourceSampleRate, Len(audioData)) + 1]
        * fraction(i, sourceSampleRate)

\* the resampled frame: part_000 528-545
resample(audioData, sourceSampleRate) ==
    IF sourceSampleRate # targetSampleRate
    THEN [i \in 1..resampledLength(Len(audioData), sourceSampleRate) |->
             interpolated(audioData, i - 1, sourceSampleRate)]
    ELSE [i \in 1..Len(audioData) |-> audioData[i] * targetSampleRate]

\* the indices of audioData the conversion reads
indicesRead(audioData, sourceSampleRate) ==
    IF sourceSampleRate # targetSampleRate
    THEN UNION {{srcIndexFloor(i, sourceSampleRate),
                 srcIndexCeil(i, sourceSampleRate, Len(audioData))} :
                   i \in 0..(resampledLength(Len(audioData), sourceSampleRate) - 1)}
    ELSE 0..(Len(audioData) - 1)

\* resampled[i] * 32768 is n / PcmUnit
PcmUnit == (SampleScale \div 32768) * targetSampleRate

\* Math.max(-32768, Math.min(32767, Math.floor(resampled[i] * 32768)))
toPcm16(n) == max2(-32768, min2(32767, n \div PcmUnit))

\* processor.onaudioprocess with the samples of the frame: part_000 520-561
processFrame(K, s, audioData) ==
    IF ~K.tr[s].isReady \/ K.tr[s].capIsPlayingAudio THEN K
    ELSE LET resampled == resample(audioData, K.tr[s].sourceSampleRate)
             pcm16 == [i \in 1..Len(resampled) |-> toPcm16(resampled[i])]
             K1 == sendBufferedAudio(
                       [K EXCEPT !.tr[s].audioBuffer = @ + Len(pcm16)], s)
         IN  [K1 EXCEPT !.hist.frames = @ + 1,
                        !.hist.conversion =
                            [input |-> audioData,
                             rate |-> K.tr[s].sourceSampleRate,
                             resampled |-> resampled,
                             pcm16 |-> pcm16,
                             indices |-> indicesRead(audioData,
                                                     K.tr[s].sourceSampleRate)]]

(***************************************************************************)
(* Spec: the page (part_000) and the route handler (part_003)              *)
(***************************************************************************)

\* audioContext.sampleRate of the capture device
SourceSampleRates == {48000}

\* Turn messages the transcription service sends: the wake word as spoken
\* (unformatted), a query (formatted)
Turns(v) ==
    { [text |-> IF v = "voice" THEN "Hey Johnny"
                ELSE IF v = "part000" THEN "Ollie" ELSE "Olly",
       turn_is_formatted |-> FALSE],
      [text |-> "turn the lights", turn_is_formatted |-> TRUE] }

RECURSIVE sumUpTo(_, _)
sumUpTo(f, n) == IF n = 0 THEN 0 ELSE f[n] + sumUpTo(f, n - 1)

\* counters of the whole run, over all sessions
chunksCut == sumUpTo([s \in Sid |-> tr[s].chunks], MaxSessions)
pollsMade == sumUpTo([s \in Sid |-> tr[s].polls], MaxSessions)
turnsPushed == sumUpTo([s \in Sid |-> srv[s].pushed], MaxSessions)

Response(r, status, expired, ts) ==
    [kind |-> r.kind, sid |-> r.sid, n |-> r.n, status |-> status,
     sessionExpired |-> expired, transcripts |-> ts]

\* ---- the page ----------------------------------------------------------

\* click on Start Listening (shown while !isListening): part_000 263-273
StartListening ==
    /\ ~page.isListening
    /\ \E s \in 1..limit.sessions :
          /\ tr[s].pc = "none"
          /\ \A u \in Sid : u < s => tr[u].pc # "none"
          /\ tr' = [tr EXCEPT ![s].pc = "start",
                              ![s].capIsPlayingAudio = page.isPlayingAudio,
                              ![s].capWakeWordDetected = page.wakeWordDetected,
                              ![s].capIsRecording = page.isRecording]
          /\ req' = req \cup {[kind |-> "start", sid |-> s, n |-> 0, samples |-> 0]}
          /\ hist' = [hist EXCEPT !.afterStop[s] =
                         /\ \A u \in 1..(s - 1) :
                               \/ tr[u].pc \in {"failed", "denied"}
                               \/ tr[u].pc = "live" /\ ~tr[u].pollingInterval
                         /\ \E u \in 1..(s - 1) : tr[u].pc = "live"]
    /\ UNCHANGED <<variant, limit, page, timers, resp, srv>>

\* the start response arrives: part_000 275-282
StartResponse ==
    /\ \E r \in resp :
          /\ r.kind = "start"
          /\ resp' = resp \ {r}
          /\ IF r.status = 200
             THEN /\ tr' = [tr EXCEPT ![r.sid].pc = "mic"]
                  /\ page' = page
             ELSE /\ tr' = [tr EXCEPT ![r.sid].pc = "failed"]
                  /\ page' = [page EXCEPT !.error = "start"]
    /\ UNCHANGED <<variant, limit, timers, req, srv, hist>>

\* getUserMedia resolves; the rest of the try block runs: part_000 285-568
MicrophoneGranted ==
    /\ \E s \in Sid, rate \in SourceSampleRates :
          /\ tr[s].pc = "mic"
          /\ tr' = [tr EXCEPT ![s].pc = "live",
                              ![s].isReady = TRUE,
                              ![s].pollingInterval = TRUE,
                              ![s].wakeWordBuffer = "",
                              ![s].audioBuffer = 0,
                              ![s].sourceSampleRate = rate,
                              ![s].trackLive = TRUE,
                              ![s].connected = TRUE]
          /\ page' = [page EXCEPT !.streamRef = s,
                                  !.transcriberRef = s,
                                  !.audioContextRef = IF variant = "voice" THEN @ ELSE s,
                                  !.audioSourceRef = IF variant = "voice" THEN @ ELSE s,
                                  !.audioProcessorRef = IF variant = "voice" THEN @ ELSE s,
                                  !.isListening = TRUE]
    /\ UNCHANGED <<variant, limit, timers, req, resp, srv, hist>>

\* err.name of what getUserMedia rejects with: the permission errors of
\* current and older browsers, no device, and an error of another kind
ErrorNames == {"NotAllowedError", "PermissionDeniedError", "NotFoundError",
               "NotReadableError"}

\* a catch block that knows the permission error by one name only
startFailureMessageOneName(name) ==
    IF name = "NotAllowedError"
    THEN "Microphone permission denied"
    ELSE IF name = "NotFoundError"
    THEN "No microphone found"
    ELSE "Failed to start voice recognition"

\* the message the catch block reports: part_000 572-578, voice 470-476,
\* combined 660-666
startFailureMessage(name) ==
    IF name = "NotAllowedError" \/ name = "PermissionDeniedError"
    THEN "Microphone permission denied"
    ELSE IF name = "NotFoundError"
    THEN "No microphone found"
    ELSE "Failed to start voice recognition"

\* getUserMedia rejects; the catch block runs: part_000 570-580 (setError;
\* combined 658-668 reports with addSystemMessage)
MicrophoneDenied ==
    /\ \E s \in Sid, name \in ErrorNames :
          /\ tr[s].pc = "mic"
          /\ Apply([stopListening(
                       [Cur EXCEPT !.tr[s].pc = "denied",
                                   !.page.error = IF variant = "combined" THEN @
                                                  ELSE startFailureMessage(name)])
                    EXCEPT !.hist.failure[s] =
                       [name |-> name,
                        messages |-> Append(@.messages, startFailureMessage(name))]])
    /\ UNCHANGED <<variant, limit, resp, srv>>

\* click on Stop Listening (shown while isListening)
StopListening ==
    /\ page.isListening
    /\ Apply(stopListening(Cur))
    /\ UNCHANGED <<variant, limit, resp, srv>>

\* the capture device delivers a frame to a connected processor
AudioProcess ==
    /\ chunksCut < limit.chunks
    /\ \E s \in Sid :
          /\ tr[s].connected
          /\ Apply(onaudioprocess(Cur, s))
    /\ UNCHANGED <<variant, limit, resp, srv>>

\* the 500 ms interval of startPolling ticks: part_000 344-346
PollTick ==
    /\ pollsMade < limit.polls
    /\ \E s \in Sid :
          /\ tr[s].pollingInterval
          /\ tr' = [tr EXCEPT ![s].polls = @ + 1]
          /\ req' = req \cup {[kind |-> "poll", sid |-> s, n |-> tr[s].polls + 1,
                              samples |-> 0]}
    /\ UNCHANGED <<variant, limit, page, timers, resp, srv, hist>>

\* the response of an audio POST arrives
AudioResponse ==
    /\ \E r \in resp :
          /\ r.kind = "audio"
          /\ resp' = resp \ {r}
          /\ Apply([audioResponse(Cur, r) EXCEPT
                      !.hist.terminal[r.sid] =
                          IF r.status = 410 \/ r.sessionExpired
                          THEN [seen |-> TRUE, chunks |-> tr[r.sid].chunks]
                          ELSE @])
    /\ UNCHANGED <<variant, limit, srv>>

\* the response of a poll GET arrives
PollResponse ==
    /\ \E r \in resp :
          /\ r.kind = "poll"
          /\ resp' = resp \ {r}
          /\ Apply(pollResponse(Cur, r))
    /\ UNCHANGED <<variant, limit, srv>>

\* a close() that does not catch what fetch throws
closeSettlesUncaught(answer) == IF answer = 0 THEN "rejected" ELSE "resolved"

\* how the promise of close() settles once await fetch has ended, answered
\* with a status or (0) by throwing: part_000 381-393, the response is not
\* looked at and the catch block logs
closeSettles(answer) == "resolved"

\* the response of the stop POST arrives; close() ignores it
StopResponse ==
    /\ \E r \in resp :
          /\ r.kind = "stop"
          /\ resp' = resp \ {r}
          /\ hist' = [hist EXCEPT !.lastClose =
                         [sid |-> r.sid, answer |-> r.status,
                          settled |-> closeSettles(r.status)]]
    /\ UNCHANGED <<variant, limit, page, tr, timers, req, srv>>

\* the answer of processQuery arrives: part_000 199-239 (it starts
\* synthesizeAndPlaySpeech 119-121), voice 87-122 (no speech), combined 303-343
QueryAnswered ==
    /\ page.pendingQueries > 0
    /\ \E ok \in BOOLEAN :
          page' = [page EXCEPT
                     !.pendingQueries = @ - 1,
                     !.isPlayingAudio = IF ok /\ variant # "voice" THEN TRUE ELSE @,
                     !.synthesizing = IF ok /\ variant # "voice" THEN @ + 1 ELSE @,
                     !.capturedImageRef = IF ok THEN @ ELSE 0]
    /\ UNCHANGED <<variant, limit, tr, timers, req, resp, srv, hist>>

\* a catch block that only logs
SynthesisSettlesKeepsFlag ==
    /\ page.synthesizing > 0
    /\ \E ok \in BOOLEAN :
          /\ page' = [page EXCEPT
                        !.synthesizing = @ - 1,
                        !.playing = IF ok THEN @ + 1 ELSE @,
                        !.capturedImageRef = IF variant = "combined" THEN 0 ELSE @]
          /\ hist' = [hist EXCEPT !.lastClear = IF ok THEN @ ELSE "failed"]
    /\ UNCHANGED <<variant, limit, tr, timers, req, resp, srv>>

\* the synthesis request settles and audio.play() starts, or either throws:
\* part_000 127-180; combined 332-338 and 713-715 clear the image afterwards
SynthesisSettles ==
    /\ page.synthesizing > 0
    /\ \E ok \in BOOLEAN :
          /\ page' = [page EXCEPT
                        !.synthesizing = @ - 1,
                        !.playing = IF ok THEN @ + 1 ELSE @,
                        !.isPlayingAudio = IF ok THEN @ ELSE FALSE,
                        !.error = IF ok THEN @ ELSE "Failed to synthesize speech",
                        !.capturedImageRef = IF variant = "combined" THEN 0 ELSE @]
          /\ hist' = [hist EXCEPT !.lastClear = IF ok THEN @ ELSE "failed"]
    /\ UNCHANGED <<variant, limit, tr, timers, req, resp, srv>>

\* audio.onended or audio.onerror: part_000 149-169
PlaybackEnds ==
    /\ page.playing > 0
    /\ page' = [page EXCEPT !.playing = @ - 1, !.isPlayingAudio = FALSE]
    /\ hist' = [hist EXCEPT !.lastClear = "ended"]
    /\ UNCHANGED <<variant, limit, tr, timers, req, resp, srv>>

\* a request never reaches the route handler: fetch throws and the catch
\* blocks of sendAudio, the poll and close only log (part_000 338, 367, 391)
FetchFails ==
    /\ \E r \in req :
          /\ r.kind \in {"audio", "poll", "stop"}
          /\ req' = req \ {r}
          /\ hist' = [hist EXCEPT !.lastClose =
                         IF r.kind = "stop"
                         THEN [sid |-> r.sid, answer |-> 0,
                               settled |-> closeSettles(0)]
                         ELSE @]
    /\ UNCHANGED <<variant, limit, page, tr, timers, resp, srv>>

\* ---- the route handler -------------------------------------------------

\* a start that registers a connection whether or not the id has one
ServerStartOverwrites ==
    /\ \E r \in req :
          /\ r.kind = "start"
          /\ req' = req \ {r}
          /\ srv' = [srv EXCEPT ![r.sid] =
                        [SrvInit EXCEPT
                            !.active = TRUE, !.starting = TRUE,
                            !.ws = "connecting",
                            !.terminal = IF srv[r.sid].terminal = "none"
                                         THEN "none" ELSE "restarting",
                            !.lastAudio = srv[r.sid].lastAudio]]
          /\ resp' = IF srv[r.sid].active
                     THEN resp \cup {Response(r, 400, FALSE, << >>)}
                     ELSE resp
    /\ UNCHANGED <<variant, limit, page, tr, timers, hist>>

\* startTranscription up to its wait: part_003 52-194
ServerStart ==
    /\ \E r \in req :
          /\ r.kind = "start"
          /\ req' = req \ {r}
          /\ IF srv[r.sid].active
             THEN /\ resp' = resp \cup {Response(r, 400, FALSE, << >>)}
                  /\ srv' = srv
             ELSE /\ srv' = [srv EXCEPT ![r.sid] =
                                [SrvInit EXCEPT
                                    !.active = TRUE, !.starting = TRUE,
                                    !.ws = "connecting",
                                    !.terminal = IF srv[r.sid].terminal = "none"
                                                 THEN "none" ELSE "restarting",
                                    !.lastAudio = srv[r.sid].lastAudio]]
                  /\ resp' = resp
    /\ UNCHANGED <<variant, limit, page, tr, timers, hist>>

\* startTranscription after its wait: ready, or 5 seconds passed: part_003 196-224
ServerStartSettles ==
    /\ \E s \in Sid :
          /\ srv[s].starting
          /\ LET r == [kind |-> "start", sid |-> s, n |-> 0]
             IN  IF srv[s].isReady
                 THEN /\ srv' = [srv EXCEPT ![s].starting = FALSE,
                                            ![s].terminal = "none"]
                      /\ resp' = resp \cup {Response(r, 200, FALSE, << >>)}
                 ELSE /\ srv' = [srv EXCEPT ![s].starting = FALSE, ![s].active = FALSE]
                      /\ resp' = resp \cup {Response(r, 500, FALSE, << >>)}
    /\ UNCHANGED <<variant, limit, page, tr, timers, req, hist>>

\* ws.onopen: part_003 87-90
WsOpen ==
    /\ \E s \in Sid :
          /\ srv[s].ws = "connecting"
          /\ srv' = [srv EXCEPT ![s].ws = "open", ![s].isReady = TRUE]
    /\ UNCHANGED <<variant, limit, page, tr, timers, req, resp, hist>>

\* ws.onmessage, a Begin message: part_003 109-116
WsBegin ==
    /\ \E s \in Sid :
          /\ srv[s].ws = "open"
          /\ ~srv[s].expiresSet
          /\ srv' = [srv EXCEPT ![s].expiresSet = TRUE, ![s].isReady = TRUE]
    /\ UNCHANGED <<variant, limit, page, tr, timers, req, resp, hist>>

\* ws.onmessage, a Turn message with a transcript: part_003 117-127
WsTurn ==
    /\ turnsPushed < limit.turns
    /\ \E s \in Sid, data \in Turns(variant) :
          /\ srv[s].ws = "open"
          /\ srv' = [srv EXCEPT
                       ![s].pushed = @ + 1,
                       ![s].transcripts = Append(@,
                           [n |-> srv[s].pushed + 1,
                            type |-> IF data.turn_is_formatted THEN "FinalTranscript"
                                     ELSE "PartialTranscript",
                            text |-> data.text])]
    /\ UNCHANGED <<variant, limit, page, tr, timers, req, resp, hist>>

\* ws.onmessage, a Termination message: part_003 128-132
WsTermination ==
    /\ \E s \in Sid :
          /\ srv[s].ws = "open"
          /\ srv[s].active
          /\ srv' = [srv EXCEPT ![s].active = FALSE]
    /\ UNCHANGED <<variant, limit, page, tr, timers, req, resp, hist>>

\* ws.onmessage, a message carrying an error: part_003 133-150
WsErrorMessage ==
    /\ turnsPushed < limit.turns
    /\ \E s \in Sid :
          /\ srv[s].ws = "open"
          /\ srv' = [srv EXCEPT
                       ![s].pushed = @ + 1,
                       ![s].isReady = FALSE,
                       ![s].transcripts = Append(@,
                           [n |-> srv[s].pushed + 1, type |-> "error", text |-> ""])]
    /\ UNCHANGED <<variant, limit, page, tr, timers, req, resp, hist>>

\* the clock passes connection.expiresAt
SessionExpires ==
    /\ \E s \in Sid :
          /\ srv[s].expiresSet
          /\ ~srv[s].expired
          /\ srv' = [srv EXCEPT ![s].expired = TRUE]
    /\ UNCHANGED <<variant, limit, page, tr, timers, req, resp, hist>>

\* ws.onclose: part_003 166-192
WsClose ==
    /\ \E s \in Sid :
          /\ srv[s].ws \in {"connecting", "open", "closing"}
          /\ srv' = [srv EXCEPT ![s].ws = "closed", ![s].isReady = FALSE,
                                ![s].wsNull = TRUE]
    /\ UNCHANGED <<variant, limit, page, tr, timers, req, resp, hist>>

\* a sendAudio whose 410 answers leave the session in the registry
sendAudioKeepsEntry(c, n) ==
    IF ~c.active
    THEN [status |-> 404, sessionExpired |-> TRUE, transcripts |-> << >>,
          connection |-> c]
    ELSE IF c.wsNull
    THEN [status |-> 410, sessionExpired |-> TRUE, transcripts |-> << >>,
          connection |-> c]
    ELSE IF c.expiresSet /\ c.expired
    THEN [status |-> 410, sessionExpired |-> TRUE, transcripts |-> << >>,
          connection |-> [c EXCEPT !.ws = IF @ \in {"connecting", "open"}
                                          THEN "closing" ELSE @]]
    ELSE IF ~c.isReady \/ c.ws # "open"
    THEN IF c.ws \in {"closing", "closed"}
         THEN [status |-> 410, sessionExpired |-> TRUE, transcripts |-> << >>,
               connection |-> c]
         ELSE [status |-> 503, sessionExpired |-> FALSE, transcripts |-> << >>,
               connection |-> c]
    ELSE [status |-> 200, sessionExpired |-> FALSE, transcripts |-> c.transcripts,
          connection |-> [c EXCEPT !.sent = Append(@, n),
                                   !.returned = @ \o entryNumbers(c.transcripts),
                                   !.transcripts = << >>]]

\* sendAudio: part_003 238-349.  c is the session's entry, n the chunk; the
\* answer and what becomes of the entry
sendAudio(c, n) ==
    IF ~c.active
    THEN [status |-> 404, sessionExpired |-> TRUE, transcripts |-> << >>,
          connection |-> c]
    ELSE IF c.wsNull
    THEN [status |-> 410, sessionExpired |-> TRUE, transcripts |-> << >>,
          connection |-> [c EXCEPT !.active = FALSE]]
    ELSE IF c.expiresSet /\ c.expired
    THEN [status |-> 410, sessionExpired |-> TRUE, transcripts |-> << >>,
          connection |-> [c EXCEPT !.active = FALSE,
                                   !.ws = IF @ \in {"connecting", "open"}
                                          THEN "closing" ELSE @]]
    ELSE IF ~c.isReady \/ c.ws # "open"
    THEN IF c.ws \in {"closing", "closed"}
         THEN [status |-> 410, sessionExpired |-> TRUE, transcripts |-> << >>,
               connection |-> [c EXCEPT !.active = FALSE]]
         ELSE [status |-> 503, sessionExpired |-> FALSE, transcripts |-> << >>,
               connection |-> c]
    ELSE [status |-> 200, sessionExpired |-> FALSE, transcripts |-> c.transcripts,
          connection |-> [c EXCEPT !.sent = Append(@, n),
                                   !.returned = @ \o entryNumbers(c.transcripts),
                                   !.transcripts = << >>]]

\* an audio POST reaches the route handler
ServerAudio ==
    /\ \E r \in req :
          /\ r.kind = "audio"
          /\ req' = req \ {r}
          /\ LET a == sendAudio(srv[r.sid], r.n)
             IN  /\ resp' = resp \cup
                       {Response(r, a.status, a.sessionExpired, a.transcripts)}
                 /\ srv' = [srv EXCEPT ![r.sid] =
                              [a.connection EXCEPT
                                 !.lastAudio = [before |-> srv[r.sid].terminal,
                                                sessionExpired |-> a.sessionExpired],
                                 !.terminal = IF a.status = 410 \/ a.sessionExpired
                                              THEN "answered" ELSE @]]
    /\ UNCHANGED <<variant, limit, page, tr, timers, hist>>

\* a GET that leaves the queue as it is
ServerPollKeepsQueue ==
    /\ \E r \in req :
          /\ r.kind = "poll"
          /\ req' = req \ {r}
          /\ IF ~srv[r.sid].active
             THEN /\ resp' = resp \cup {Response(r, 404, FALSE, << >>)}
                  /\ srv' = srv
             ELSE /\ resp' = resp \cup {Response(r, 200, FALSE, srv[r.sid].transcripts)}
                  /\ srv' = [srv EXCEPT ![r.sid].returned =
                                            @ \o entryNumbers(srv[r.sid].transcripts)]
    /\ UNCHANGED <<variant, limit, page, tr, timers, hist>>

\* GET: part_003 409-438
ServerPoll ==
    /\ \E r \in req :
          /\ r.kind = "poll"
          /\ req' = req \ {r}
          /\ IF ~srv[r.sid].active
             THEN /\ resp' = resp \cup {Response(r, 404, FALSE, << >>)}
                  /\ srv' = srv
             ELSE /\ resp' = resp \cup {Response(r, 200, FALSE, srv[r.sid].transcripts)}
                  /\ srv' = [srv EXCEPT ![r.sid].returned =
                                            @ \o entryNumbers(srv[r.sid].transcripts),
                                        ![r.sid].transcripts = << >>]
    /\ UNCHANGED <<variant, limit, page, tr, timers, hist>>

\* stopTranscription: part_003 351-406
ServerStop ==
    /\ \E r \in req :
          /\ r.kind = "stop"
          /\ req' = req \ {r}
          /\ IF ~srv[r.sid].active
             THEN /\ resp' = resp \cup {Response(r, 404, FALSE, << >>)}
                  /\ srv' = srv
             ELSE /\ resp' = resp \cup {Response(r, 200, FALSE, << >>)}
                  /\ srv' = [srv EXCEPT ![r.sid].active = FALSE,
                                        ![r.sid].ws = IF srv[r.sid].wsNull THEN @
                                                      ELSE IF @ \in {"connecting", "open"}
                                                      THEN "closing" ELSE @]
    /\ UNCHANGED <<variant, limit, page, tr, timers, hist>>

(***************************************************************************)
(* Claims about the segmenter, under SpecSeg                               *)
(***************************************************************************)

\* C1: in RECORDING, a transcript event whose text is non-empty after the
\* trigger phrase is removed arms the silence timer, and the silence timer
\* firing emits the utterance exactly once and leaves the segmenter in
\* AWAITING_WAKE_WORD, in every page variant.
C1_FinalizedExactlyOnce ==
    /\ ( /\ hist.lastEvent.state = "RECORDING"
         /\ trim(stripWakeWord(hist.lastEvent.text)) # "" )
       => hist.lastEvent.armed
    /\ hist.lastFire.fired
       => (hist.lastFire.emitted = 1 /\ hist.lastFire.awaiting)

\* C2: in AWAITING_WAKE_WORD, two consecutive events whose lower-cased texts,
\* concatenated, hold the trigger phrase within the trailing 50 characters
\* (neither holding it alone) make wake detection fire on the second event.
C2_SplitPhraseDetected ==
    ( /\ hist.prevEvent.state = "AWAITING_WAKE_WORD"
      /\ hist.lastEvent.state = "AWAITING_WAKE_WORD"
      /\ ~hist.prevEvent.detected
      /\ ~includes(toLowerCase(hist.prevEvent.text), wakeWord(variant))
      /\ ~includes(toLowerCase(hist.lastEvent.text), wakeWord(variant))
      /\ includes(sliceLast(toLowerCase(hist.prevEvent.text)
                              \o toLowerCase(hist.lastEvent.text), WakeBufferWindow),
                  wakeWord(variant)) )
    => hist.lastEvent.detected

\* the page as it is mounted, no request made
Fresh ==
    /\ page = PageInit
    /\ tr = [s \in Sid |-> TrInit]
    /\ timers = {}
    /\ req = {}
    /\ resp = {}
    /\ srv = [s \in Sid |-> SrvInit]
    /\ hist = HistInit

Init ==
    /\ variant = "part000"
    /\ limit = [NoLimit EXCEPT !.sessions = MaxSessions, !.chunks = LifeChunks,
                               !.polls = MaxPolls, !.turns = MaxTurns]
    /\ Fresh

\* starting a session: the page and the route handler
StartUp ==
    \/ StartListening
    \/ ServerStart
    \/ WsOpen
    \/ ServerStartSettles
    \/ StartResponse
    \/ MicrophoneGranted

Next ==
    \/ StartUp
    \/ MicrophoneDenied
    \/ StopListening
    \/ AudioProcess
    \/ PollTick
    \/ AudioResponse
    \/ PollResponse
    \/ StopResponse
    \/ SilenceTimerFires
    \/ QueryAnswered
    \/ SynthesisSettles
    \/ PlaybackEnds
    \/ WsTurn
    \/ ServerAudio
    \/ ServerPoll
    \/ ServerStop

Spec == Init /\ [][Next]_vars

NetInit ==
    /\ variant \in {"part000", "voice"}
    /\ limit = [NoLimit EXCEPT !.sessions = NetSessions, !.chunks = MaxChunks,
                               !.polls = MaxPolls, !.turns = MaxTurns]
    /\ Fresh

NetNext ==
    \/ StartUp
    \/ AudioProcess
    \/ PollTick
    \/ AudioResponse
    \/ PollResponse
    \/ StopResponse
    \/ FetchFails
    \/ WsBegin
    \/ WsTurn
    \/ WsTermination
    \/ WsErrorMessage
    \/ SessionExpires
    \/ WsClose
    \/ ServerAudio
    \/ ServerPoll
    \/ ServerStop

SpecNet == NetInit /\ [][NetNext]_vars
\* C13: in AWAITING_WAKE_WORD, detection fires on an event only if the whole
\* trigger phrase is in the tail of at most 50 characters the buffer holds
\* after the event, or in the event's own text; a phrase whose beginning has
\* left the window is not detected.
C13_DetectionOnlyWithinWindow ==
    ( /\ hist.lastEvent.state = "AWAITING_WAKE_WORD"
      /\ hist.lastEvent.detected )
    => \/ includes(sliceLast(hist.lastEvent.buffer \o " "
                               \o toLowerCase(hist.lastEvent.text), WakeBufferWindow),
                   wakeWord(variant))
       \/ includes(toLowerCase(hist.lastEvent.text), wakeWord(variant))

\* the phrase is whole in what was appended, but its beginning is more than
\* 50 characters back and no single event holds it: no detection
C13_Witness ==
    /\ hist.lastEvent.state = "AWAITING_WAKE_WORD"
    /\ ~hist.lastEvent.detected
    /\ ~includes(toLowerCase(hist.lastEvent.text), wakeWord(variant))
    /\ includes(hist.lastEvent.buffer \o " " \o toLowerCase(hist.lastEvent.text),
                wakeWord(variant))
    /\ ~includes(sliceLast(hist.lastEvent.buffer \o " "
                             \o toLowerCase(hist.lastEvent.text), WakeBufferWindow),
                 wakeWord(variant))

\* C16: at most one silence timer is outstanding at any moment, and it is the
\* one armed last (the one silenceTimerRef holds): a recording event cancels
\* the timer armed before it, so no older timer is left to finalize text that
\* a newer event has superseded.
C16_OneSilenceTimer ==
    /\ Cardinality(timers) <= 1
    /\ timers \subseteq {page.silenceTimerRef}

\* two recording events in a row armed the timer, with different texts
C16_Witness ==
    /\ hist.prevEvent.state = "RECORDING"
    /\ hist.prevEvent.armed
    /\ hist.lastEvent.state = "RECORDING"
    /\ hist.lastEvent.armed
    /\ hist.prevEvent.text # hist.lastEvent.text
    /\ timers = {page.silenceTimerRef}

\* C17: right after every wake detection, whether the phrase was found in one
\* event's text or in the rolling buffer, the wake buffer is empty.
C17_BufferEmptyAfterDetection ==
    hist.lastEvent.detected => tr[1].wakeWordBuffer = ""

\* C18: after any transcript event, in any state, the wake buffer holds at
\* most 50 characters and is the trailing 50 characters of what it held before
\* with the event's lower-cased text appended (empty if the event was the
\* detection that reset it).
C18_BufferIsTailOfAppendedText ==
    /\ Len(tr[1].wakeWordBuffer) <= WakeBufferWindow
    /\ ( /\ hist.lastEvent.state # "none"
         /\ ~hist.lastEvent.detected )
       => tr[1].wakeWordBuffer =
              sliceLast(hist.lastEvent.buffer \o " " \o toLowerCase(hist.lastEvent.text),
                        WakeBufferWindow)

\* C19: the event on which wake detection fires is discarded: the utterance
\* is empty right after it, one 'wake detected' notification is emitted, and
\* the event arms no silence timer.
C19_TriggeringEventDiscarded ==
    hist.lastEvent.detected
    => /\ page.currentTranscript = ""
       /\ hist.lastEvent.notified = 1
       /\ ~hist.lastEvent.armedByEvent

\* a detection on a page whose previous event had set the utterance
C19_Witness ==
    /\ hist.lastEvent.detected
    /\ hist.prevEvent.state = "RECORDING"
    /\ hist.prevEvent.armedByEvent
    /\ page.currentTranscript = ""

C29_UtteranceReplacedOrAppended ==
    LET e == hist.lastEvent
        stripped == stripWakeWord(e.text)
    IN  /\ ( /\ e.state = "RECORDING"
             /\ ~e.detected
             /\ trim(stripped) # "" )
           => e.after = IF variant = "voice" /\ e.before # ""
                        THEN e.before \o " " \o stripped
                        ELSE stripped
        /\ variant # "voice"
           => \A t \in timers : t.text = hist.lastRecorded
        /\ hist.lastFire.fired => hist.lastFire.utterance = ""

\* C30: every utterance emitted as a completed query is non-empty and holds
\* no occurrence of the trigger phrase in any letter case, whatever the
\* transcript event texts, also texts in which removing an occurrence of the
\* phrase makes another.
C30_EmittedUtteranceHasNoTrigger ==
    \A i \in 1..Len(hist.emitted) :
        /\ hist.emitted[i].text # ""
        /\ ~includes(toLowerCase(hist.emitted[i].text), wakeWord(variant))

\* C39: between a wake detection and the next finalization or stop, no second
\* 'wake detected' notification is emitted and the utterance in progress is
\* not cleared again, even if later events contain the trigger phrase; in
\* every page variant.
C39_NoSecondDetection ==
    hist.lastEvent.state = "RECORDING"
    => /\ hist.lastEvent.notified = 0
       /\ hist.lastEvent.before # "" => hist.lastEvent.after # ""

(***************************************************************************)
(* Claims about the session life cycle, under Spec                         *)
(***************************************************************************)

\* C3: while the playback flag isPlayingAudio is true, every frame the capture
\* device delivers is dropped (not resampled, not buffered, not sent), also
\* for a session that was started before the playback began.
C3_FramesDroppedDuringPlayback ==
    hist.lastFrame.playing => hist.lastFrame.outcome = "dropped"

\* C4: once session A is stopped and session B is started, a transcript
\* response of A that was in flight at the stop does not change the segmenter
\* state: the wake-detected flag, the utterance and the silence timer stay
\* as they are when the response is handled.
C4_LateResponseLeavesNewSession ==
    [][ \A r \in resp :
          ( /\ resp' = resp \ {r}
            /\ r.kind \in {"audio", "poll"}
            /\ tr[r.sid].pc = "live"
            /\ ~tr[r.sid].pollingInterval
            /\ page.transcriberRef \in Sid
            /\ page.transcriberRef > r.sid
            /\ hist.afterStop[page.transcriberRef] )
          => /\ page'.wakeWordDetectedRef = page.wakeWordDetectedRef
             /\ page'.wakeWordDetected = page.wakeWordDetected
             /\ page'.currentTranscript = page.currentTranscript
             /\ page'.silenceTimerRef = page.silenceTimerRef
             /\ timers' = timers ]_vars

\* C7: when getUserMedia fails during startListening(), the failure handling
\* leaves nothing of the attempted session: its backend session is closed and
\* removed, no polling interval of it runs and no silence timer of it is armed.
C7_FailedAcquisitionLeavesNothing ==
    \A s \in Sid :
        tr[s].pc = "denied"
        => /\ ~srv[s].active
           /\ srv[s].ws \notin {"connecting", "open"}
           /\ ~tr[s].pollingInterval
           /\ \A t \in timers : t.sid # s

\* C8: startListening() invoked while a session is started or starting creates
\* no second session: at most one transcriber (polling interval, microphone
\* stream, audio graph, backend session) exists, and each one that runs is the
\* one stopListening() reaches through transcriberRef and streamRef.
C8_AtMostOneTranscriber ==
    /\ Cardinality({s \in Sid : tr[s].pollingInterval}) <= 1
    /\ Cardinality({s \in Sid : tr[s].trackLive}) <= 1
    /\ Cardinality({s \in Sid : srv[s].active}) <= 1
    /\ \A s \in Sid :
          /\ tr[s].pollingInterval => page.transcriberRef = s
          /\ tr[s].trackLive => page.streamRef = s

\* C10: after stopListening() has returned, no silence timer fires (no
\* utterance is finalized or submitted while the page is stopped) and the
\* polling interval of the stopped session issues no further poll request.
C10_NothingFiresAfterStop ==
    [][ /\ (~page.isListening /\ ~page'.isListening)
           => /\ hist'.emitted = hist.emitted
              /\ hist'.lastFire = hist.lastFire
        /\ \A s \in Sid :
              (tr[s].pc = "live" /\ ~tr[s].pollingInterval)
              => tr'[s].polls = tr[s].polls ]_vars

\* C11: stopListening() called twice in a row, or on a page that was never
\* started, has no further effect: the state after two calls is the state
\* after one, a never-started page is left as it is, and no transcriber is
\* ever sent a second close (no second 'stop' request).
C11_StopListeningIdempotent ==
    /\ stopListening(stopListening(Cur)) = stopListening(Cur)
    /\ (\A s \in Sid : tr[s].pc = "none") => stopListening(Cur) = Cur
    /\ \A s \in Sid : tr[s].closes <= 1

\* session 1 was stopped, session 2 was started on the stopped page and its
\* catch block called stopListening() again
C11_Witness ==
    /\ tr[1].closes = 1
    /\ hist.afterStop[2]
    /\ tr[2].pc = "denied"
    /\ page.transcriberRef = NoSid

C26_OneLiveStream ==
    /\ Cardinality({s \in Sid : tr[s].trackLive}) <= 1
    /\ \A s \in Sid : tr[s].trackLive => page.streamRef = s
    /\ page.streamRef = NoSid
       => \A s \in Sid : ~tr[s].trackLive /\ ~tr[s].connected

\* C31: stopListening() tears down in the order: stop frame production
\* (the tracks), disconnect the audio graph nodes, cancel the silence timer,
\* and only then close the dispatcher's transport; the transport is never
\* closed before the tracks are stopped and the timer is cancelled.
C31_TeardownOrder ==
    LET t == hist.teardown
        at(x) == CHOOSE i \in 1..Len(t) : t[i] = x
        has(x) == \E i \in 1..Len(t) : t[i] = x
        before(x, y) == (has(x) /\ has(y)) => at(x) < at(y)
    IN  /\ before("tracks", "processor")
        /\ before("tracks", "source")
        /\ before("processor", "timer")
        /\ before("source", "timer")
        /\ before("tracks", "transport")
        /\ before("timer", "transport")

(***************************************************************************)
(* Claims about the dispatcher and the route handler, under SpecNet        *)
(***************************************************************************)

\* C5: the chunks sendBufferedAudio hands to the dispatcher reach the
\* backend's WebSocket send once each and in the order they were cut, also
\* when several sendAudio requests are in flight together: what ws.send has
\* been given is an increasing sequence of chunk numbers.
C5_ChunksReachTransportInOrder ==
    \A s \in Sid :
        \A i, j \in 1..Len(srv[s].sent) :
            i < j => srv[s].sent[i] < srv[s].sent[j]

\* C6: the transcript callback receives the transcript events in the order
\* the backend queued them, whichever of the audio and poll responses
\* completes first.
C6_EventsDeliveredInOrder ==
    \A s \in Sid :
        \A i, j \in 1..Len(hist.delivered[s]) :
            i < j => hist.delivered[s][i] < hist.delivered[s][j]

\* C9: once an audio send of a session is answered 410 or sessionExpired, the
\* error callback has been invoked, isReady is false and stays false, and no
\* further chunk of that session is sent.
C9_TerminalStatusStopsSending ==
    \A s \in Sid :
        hist.terminal[s].seen
        => /\ hist.errors[s] >= 1
           /\ ~tr[s].isReady
           /\ tr[s].chunks = hist.terminal[s].chunks

\* a frame arrived after the terminal answer, with chunks still to cut
C9_Witness ==
    \E s \in Sid :
        /\ hist.terminal[s].seen
        /\ hist.lastFrame.sid = s
        /\ hist.lastFrame.outcome = "dropped"
        /\ chunksCut < limit.chunks

\* C14: when the dispatcher reports an error (an 'error' entry in a response,
\* or session expiry), in either segmenter state, the handling leaves the
\* session stopped: not listening, wake and recording state reset, utterance
\* empty, no silence timer pending, the transcriber's polling stopped and its
\* transport closed.
C14_ErrorStopsSession ==
    [][ \A s \in Sid :
          hist'.errors[s] > hist.errors[s]
          => /\ ~page'.isListening
             /\ ~page'.wakeWordDetected
             /\ ~page'.wakeWordDetectedRef
             /\ ~page'.isRecording
             /\ page'.currentTranscript = ""
             /\ timers' = {}
             /\ ~tr'[s].pollingInterval
             /\ ~tr'[s].isReady
             /\ tr'[s].closes >= 1 ]_vars

\* C15: a send failure of the running session (the audio request throws, or
\* is answered with a status other than success) ends the session: the error
\* callback is invoked, the page stops listening and the transcriber sends
\* no more.
C15_SendFailureEndsSession ==
    [][ /\ \A r \in resp :
             ( /\ resp' = resp \ {r}
               /\ r.kind = "audio"
               /\ r.status # 200
               /\ page.transcriberRef = r.sid
               /\ tr[r.sid].isReady )
             => /\ hist'.errors[r.sid] > hist.errors[r.sid]
                /\ ~page'.isListening
                /\ ~tr'[r.sid].isReady
        /\ \A r \in req :
             ( /\ req' = req \ {r}
               /\ resp' = resp
               /\ r.kind = "audio"
               /\ page.transcriberRef = r.sid
               /\ tr[r.sid].isReady )
             => /\ hist'.errors[r.sid] > hist.errors[r.sid]
                /\ ~page'.isListening
                /\ ~tr'[r.sid].isReady ]_vars

\* C25: transcriber.close() stops the polling interval and sends a 'stop'
\* notification to the backend; it never throws or rejects, also when the
\* backend session is already gone or the request fails; a second close()
\* leaves the transcriber as the first left it (isReady false, no polling
\* interval).
C25_CloseIsBestEffort ==
    /\ hist.lastClose.settled # "rejected"
    /\ \A s \in Sid :
          LET K1 == close(Cur, s)
              K2 == close(K1, s)
          IN  /\ ~K1.tr[s].isReady
              /\ ~K1.tr[s].pollingInterval
              /\ \E r \in K1.req \ req : r.kind = "stop" /\ r.sid = s
              /\ [K2.tr[s] EXCEPT !.closes = 0] = [K1.tr[s] EXCEPT !.closes = 0]
              /\ K2.page = K1.page
              /\ K2.timers = K1.timers
          /\ tr[s].closes >= 1 => (~tr[s].isReady /\ ~tr[s].pollingInterval)

\* a transcriber was closed after the backend had removed its session and
\* the stop request was answered 404
C25_Witness ==
    \E s \in Sid :
        /\ tr[s].closes >= 1
        /\ hist.lastClose.sid = s
        /\ hist.lastClose.answer = 404
        /\ hist.lastClose.settled = "resolved"

\* a transcriber was closed and the fetch of its stop request threw
C25_WitnessRequestFails ==
    \E s \in Sid :
        /\ tr[s].closes >= 1
        /\ hist.lastClose.sid = s
        /\ hist.lastClose.answer = 0
        /\ hist.lastClose.settled = "resolved"

\* C35: on the server, each entry pushed to a session's queue is returned in
\* exactly one of the session's audio and poll responses, in push order, and
\* is never dropped while the session is in the registry: the entries
\* returned so far followed by the entries still queued are the entries
\* pushed, each once and in order.
C35_EntriesReturnedOnceInOrder ==
    \A s \in Sid :
       srv[s].active
       => srv[s].returned \o entryNumbers(srv[s].transcripts)
            = [i \in 1..srv[s].pushed |-> i]

\* an audio response returned the first entry and a poll response the second
C35_Witness ==
    /\ srv[1].active
    /\ srv[1].returned = <<1, 2>>
    /\ srv[1].sent # << >>
    /\ \E r \in resp : r.kind = "poll" /\ entryNumbers(r.transcripts) = <<2>>

(***************************************************************************)
(* SpecBuf: the audio buffer of a started session fed frames               *)
(***************************************************************************)

\* audioContext.sampleRate: telephone and wide-band headsets, the common
\* device rates, studio interfaces, and a device slower than any of them
BufSampleRates == {3000, 8000, 16000, 44100, 48000, 96000, 192000}

BufInit ==
    /\ variant \in {"part000", "voice"}
    /\ limit = [NoLimit EXCEPT !.chunks = MaxBufChunks]
    /\ page = [PageInit EXCEPT
                  !.isListening = TRUE,
                  !.transcriberRef = 1,
                  !.streamRef = 1,
                  !.audioProcessorRef = IF variant = "voice" THEN NoSid ELSE 1,
                  !.audioSourceRef = IF variant = "voice" THEN NoSid ELSE 1,
                  !.audioContextRef = IF variant = "voice" THEN NoSid ELSE 1]
    /\ \E rate \in BufSampleRates :
          tr = [s \in Sid |->
                  IF s = 1
                  THEN [TrInit EXCEPT !.pc = "live", !.isReady = TRUE,
                                      !.pollingInterval = TRUE, !.trackLive = TRUE,
                                      !.connected = TRUE,
                                      !.sourceSampleRate = rate]
                  ELSE TrInit]
    /\ timers = {}
    /\ req = {}
    /\ resp = {}
    /\ srv = [s \in Sid |-> SrvInit]
    /\ hist = HistInit

BufNext ==
    \/ AudioProcess
    \/ FetchFails

SpecBuf == BufInit /\ [][BufNext]_vars

\* C12: every chunk handed to transcriber.sendAudio has between 800 and 16000
\* samples, whatever the frames and the source sample rate; a frame cuts a
\* chunk as soon as the buffer holds 800 samples, and what the chunk does not
\* take (the samples beyond the first 16000) stays in the buffer.
C12_ChunkSizeWithinLimits ==
    /\ \A r \in req :
          r.kind = "audio" => (minSamples <= r.samples /\ r.samples <= maxSamples)
    /\ hist.lastFrame.outcome = "processed"
       => LET f == hist.lastFrame
          IN  /\ f.after = f.before + f.added - f.sent
              /\ f.sent = 0 \/ (minSamples <= f.sent /\ f.sent <= maxSamples)
              /\ f.sent = 0 <=> f.before + f.added < minSamples
              /\ f.before + f.added > maxSamples => f.sent = maxSamples

\* a frame left fewer than 800 samples and cut no chunk; a later frame cut one
C12_Witness ==
    /\ hist.lastFrame.outcome = "processed"
    /\ hist.lastFrame.before > 0
    /\ hist.lastFrame.before < minSamples
    /\ hist.lastFrame.sent >= minSamples
    /\ \E r \in req : r.kind = "audio" /\ r.samples = hist.lastFrame.sent

(***************************************************************************)
(* SpecPlay: a started session whose queries are answered and spoken       *)
(***************************************************************************)

\* the pages that speak their answers
PlayInit ==
    /\ variant \in {"part000", "combined"}
    /\ limit = [NoLimit EXCEPT !.events = MaxPlayEvents]
    /\ page = [PageInit EXCEPT
                  !.isListening = TRUE,
                  !.transcriberRef = 1,
                  !.streamRef = 1,
                  !.audioProcessorRef = 1,
                  !.audioSourceRef = 1,
                  !.audioContextRef = 1]
    /\ tr = [s \in Sid |->
                IF s = 1
                THEN [TrInit EXCEPT !.pc = "live", !.isReady = TRUE,
                                    !.pollingInterval = TRUE, !.trackLive = TRUE,
                                    !.connected = TRUE]
                ELSE TrInit]
    /\ timers = {}
    /\ req = {}
    /\ resp = {}
    /\ srv = [s \in Sid |-> SrvInit]
    /\ hist = HistInit

\* event texts of SpecPlay: the wake word and a query
PlayTranscript ==
    /\ hist.events < limit.events
    /\ \E text \in {wakeWord(variant), "turn the lights"} :
          Apply(observed(Cur, onTranscript(Cur, 1, text), text))
    /\ UNCHANGED <<variant, limit, resp, srv>>

PlayNext ==
    \/ PlayTranscript
    \/ SilenceTimerFires
    \/ CaptureSettles
    \/ QueryAnswered
    \/ SynthesisSettles
    \/ PlaybackEnds

\* the synthesis request settles (the browser ends a fetch with a response or
\* an exception) and a playing audio element ends or fails
SpecPlay ==
    /\ PlayInit
    /\ [][PlayNext]_vars
    /\ WF_vars(SynthesisSettles)
    /\ WF_vars(PlaybackEnds)

\* C22: every call of synthesizeAndPlaySpeech that sets the playback flag
\* eventually clears it: once playback ends or fails, or the synthesis request
\* fails, isPlayingAudio is false again.
C22_PlaybackFlagCleared ==
    page.isPlayingAudio ~> ~page.isPlayingAudio

\* an answer was spoken to its end and the flag is clear with nothing pending
C22_Witness ==
    /\ hist.lastClear = "ended"
    /\ ~page.isPlayingAudio
    /\ page.synthesizing = 0
    /\ page.playing = 0
    /\ Len(hist.emitted) = 2

\* C34: in the combined flow, every finalized non-empty utterance whose
\* wake-time snapshot had been captured is submitted with the image of that same
\* detection, however the capture's completion, the silence timer and the
\* completion of an earlier utterance's processing (which clears the shared
\* image reference) interleave.
C34_UtteranceCarriesItsImage ==
    ( /\ variant = "combined"
      /\ hist.lastFire.fired
      /\ ~hist.lastFire.empty
      /\ hist.lastFire.captured )
    => /\ hist.lastFire.emitted = 1
       /\ LET query == hist.emitted[Len(hist.emitted)]
          IN  query.image = query.wake

\* C40: in the combined flow, if the snapshot capture triggered by a wake
\* detection fails, the segmenter returns to AWAITING_WAKE_WORD and no
\* utterance of that wake cycle is finalized or submitted: a silence timer
\* armed before the capture's result produces no query.
C40_FailedCaptureProducesNoQuery ==
    ( /\ variant = "combined"
      /\ hist.lastFire.fired
      /\ hist.lastFire.failed )
    => hist.lastFire.emitted = 0

(***************************************************************************)
(* SpecPcm: frames of a started session resampled and converted to PCM16   *)
(***************************************************************************)

\* audioContext.sampleRate: the target rate, and rates below and above it
\* whose ratio to it is exact in floating point
PcmSampleRates == {8000, 16000, 24000, 48000}

\* samples of a frame: -1, -1.5 / 32768, 0, 0.5 / 32768, 32767.5 / 32768, 1
SampleValues == {-65536, -3, 0, 1, 65535, 65536}

\* frames of 1 to MaxFrameLen samples
Frames ==
    {[j \in 1..n |-> IF j % 2 = 1 THEN a ELSE b] :
        n \in 1..MaxFrameLen, a \in SampleValues, b \in SampleValues}

PcmInit ==
    /\ variant \in {"part000", "voice"}
    /\ limit = [NoLimit EXCEPT !.frames = MaxPcmFrames]
    /\ page = [PageInit EXCEPT
                  !.isListening = TRUE,
                  !.transcriberRef = 1,
                  !.streamRef = 1,
                  !.audioProcessorRef = IF variant = "voice" THEN NoSid ELSE 1,
                  !.audioSourceRef = IF variant = "voice" THEN NoSid ELSE 1,
                  !.audioContextRef = IF variant = "voice" THEN NoSid ELSE 1]
    /\ \E rate \in PcmSampleRates :
          tr = [s \in Sid |->
                  IF s = 1
                  THEN [TrInit EXCEPT !.pc = "live", !.isReady = TRUE,
                                      !.pollingInterval = TRUE, !.trackLive = TRUE,
                                      !.connected = TRUE,
                                      !.sourceSampleRate = rate]
                  ELSE TrInit]
    /\ timers = {}
    /\ req = {}
    /\ resp = {}
    /\ srv = [s \in Sid |-> SrvInit]
    /\ hist = HistInit

\* the capture device delivers a frame with its samples
AudioFrame ==
    /\ hist.frames < limit.frames
    /\ \E s \in Sid, audioData \in Frames :
          /\ tr[s].connected
          /\ Apply(processFrame(Cur, s, audioData))
    /\ UNCHANGED <<variant, limit, resp, srv>>

PcmNext == AudioFrame

SpecPcm == PcmInit /\ [][PcmNext]_vars

\* Math.round(n / PcmUnit), saturated
roundedPcm16(n) ==
    max2(-32768, min2(32767, (2 * n + PcmUnit) \div (2 * PcmUnit)))

\* C23: for every resampled sample s in [-1, 1], the PCM16 value appended to
\* the audio buffer is round(s * 32768) saturated to [-32768, 32767], both
\* when the source rate is the target rate and when the frame was resampled.
C23_Pcm16IsRoundedSample ==
    \A i \in 1..Len(hist.conversion.pcm16) :
        hist.conversion.pcm16[i] = roundedPcm16(hist.conversion.resampled[i])

\* C24: a frame of N samples is resampled to N samples when the source rate is
\* 16000 (resampling skipped) and to floor(N / 3) samples when it is 48000,
\* and every index read lies in 0..N-1 (the upper neighbour is clamped).
C24_ResampledLengthAndIndices ==
    LET c == hist.conversion
        N == Len(c.input)
    IN  /\ c.rate = 16000 => Len(c.pcm16) = N /\ c.resampled = [i \in 1..N |-> c.input[i] * targetSampleRate]
        /\ c.rate = 48000 => Len(c.pcm16) = N \div 3
        /\ c.indices \subseteq 0..(N - 1)
        /\ Len(c.resampled) = Len(c.pcm16)

\* a 48000 Hz frame of 7 samples gave 2 samples, read from the indices 0, 1
\* and 3, 4
C24_Witness ==
    LET c == hist.conversion
    IN  /\ c.rate = 48000
        /\ Len(c.input) = 7
        /\ Len(c.pcm16) = 2
        /\ c.indices = {0, 1, 3, 4}

(***************************************************************************)
(* SpecWake: the segmenter of a started session, with timers that fire     *)
(***************************************************************************)

WakeNext ==
    \/ PlayTranscript
    \/ SilenceTimerFires
    \/ CaptureSettles

\* weak fairness of SilenceTimerFires, which is enabled exactly while a timer
\* is pending: a pending silence timer fires unless it is cleared
TimersFire ==
    \/ []<>(timers = {})
    \/ []<><<SilenceTimerFires>>_vars

\* timers fire, and the promise of captureSnapshot() settles
SpecWake ==
    /\ PlayInit
    /\ [][WakeNext]_vars
    /\ TimersFire
    /\ WF_vars(CaptureSettles)

\* C28: after every wake detection, with timers that fire, the segmenter
\* eventually leaves RECORDING and is back in AWAITING_WAKE_WORD, also when no
\* further transcript event arrives or only events that are empty once the
\* trigger phrase is removed.
C28_RecordingEventuallyEnds ==
    page.wakeWordDetectedRef ~> ~page.wakeWordDetectedRef

(***************************************************************************)
(* SpecMsg: the dispatcher and the route handler fed malformed messages    *)
(***************************************************************************)

\* a message whose JSON does not parse, and a message of a type the handler
\* does not know
MalformedMessages ==
    { [parsed |-> FALSE, type |-> "", transcript |-> "",
       turn_is_formatted |-> FALSE, error |-> FALSE],
      [parsed |-> TRUE, type |-> "SessionInformation", transcript |-> "ollie",
       turn_is_formatted |-> FALSE, error |-> FALSE] }

\* a handler that queues an error entry for what it cannot parse
onmessageReportsParseError(c, data) ==
    IF ~data.parsed
    THEN [c EXCEPT !.pushed = @ + 1, !.isReady = FALSE,
                   !.transcripts = Append(@, [n |-> c.pushed + 1,
                                              type |-> "error", text |-> ""])]
    ELSE c

\* ws.onmessage: part_003 92-155; JSON.parse throws into the catch block,
\* which logs
onmessage(c, data) ==
    IF ~data.parsed THEN c
    ELSE IF data.type = "Begin"
    THEN [c EXCEPT !.expiresSet = TRUE, !.isReady = TRUE]
    ELSE IF data.type = "Turn"
    THEN IF data.transcript # ""
         THEN [c EXCEPT !.pushed = @ + 1,
                        !.transcripts = Append(@,
                            [n |-> c.pushed + 1,
                             type |-> IF data.turn_is_formatted THEN "FinalTranscript"
                                      ELSE "PartialTranscript",
                             text |-> data.transcript])]
         ELSE c
    ELSE IF data.type = "Termination"
    THEN [c EXCEPT !.active = FALSE]
    ELSE IF data.error \/ data.type = "error"
    THEN [c EXCEPT !.pushed = @ + 1, !.isReady = FALSE,
                   !.transcripts = Append(@, [n |-> c.pushed + 1,
                                              type |-> "error", text |-> ""])]
    ELSE c

\* the service's socket delivers a malformed message
WsMalformed ==
    /\ hist.malformed < limit.malformed
    /\ \E s \in Sid, data \in MalformedMessages :
          /\ srv[s].ws = "open"
          /\ srv' = [srv EXCEPT ![s] = onmessage(@, data)]
    /\ hist' = [hist EXCEPT !.malformed = @ + 1]
    /\ UNCHANGED <<variant, limit, page, tr, timers, req, resp>>

\* a transcript entry of a type the page does not know
UnknownEntry == [n |-> 0, type |-> "SessionInformation", text |-> "ollie"]

\* r with the unknown entry before or after its transcripts
withUnknownEntry(r, first) ==
    [r EXCEPT !.transcripts = IF first THEN <<UnknownEntry>> \o @
                              ELSE Append(@, UnknownEntry)]

\* what the page does with a response: part_000 310-337 and 347-366
handleResponse(K, r) ==
    IF r.kind = "audio" THEN audioResponse(K, r) ELSE pollResponse(K, r)

\* an audio or poll response arrives that holds an entry of unknown type
ResponseWithUnknownEntry ==
    /\ hist.unknown < limit.malformed
    /\ \E r \in resp, first \in BOOLEAN :
          /\ r.kind \in {"audio", "poll"}
          /\ r.status = 200
          /\ resp' = resp \ {r}
          /\ Apply([handleResponse(Cur, withUnknownEntry(r, first)) EXCEPT
                       !.hist.unknown = @ + 1])
    /\ UNCHANGED <<variant, limit, srv>>

MsgInit ==
    /\ variant \in {"part000", "voice"}
    /\ limit = [NoLimit EXCEPT !.sessions = NetSessions, !.chunks = MsgChunks,
                               !.polls = MaxPolls, !.turns = MsgTurns,
                               !.malformed = MaxMalformed]
    /\ Fresh

MsgNext ==
    \/ StartUp
    \/ AudioProcess
    \/ PollTick
    \/ AudioResponse
    \/ PollResponse
    \/ WsTurn
    \/ WsMalformed
    \/ ResponseWithUnknownEntry
    \/ ServerAudio
    \/ ServerPoll

SpecMsg == MsgInit /\ [][MsgNext]_vars

\* C27: a malformed transport message (JSON the route handler cannot parse on
\* the service's socket, or an entry of unknown type in a response) is
\* skipped: it queues and delivers no transcript event, invokes no error
\* callback, and leaves the session running as it was.
C27_MalformedMessageSkipped ==
    [][ (hist'.malformed > hist.malformed \/ hist'.unknown > hist.unknown)
        => /\ srv' = srv
           /\ \A r \in resp :
                 resp' = resp \ {r}
                 => LET K == handleResponse(Cur, r)
                    IN  /\ page' = K.page
                        /\ tr' = K.tr
                        /\ timers' = K.timers
                        /\ req' = K.req
                        /\ hist'.delivered = K.hist.delivered
                        /\ hist'.errors = K.hist.errors
                        /\ hist'.wakes = K.hist.wakes
                        /\ r.transcripts = << >>
                           => (page' = page /\ tr' = tr /\ timers' = timers)
           /\ resp' = resp
              => (page' = page /\ tr' = tr /\ timers' = timers /\ req' = req)
           /\ \A s \in Sid : hist'.errors[s] = hist.errors[s]
           /\ \A s \in Sid : tr[s].pollingInterval => tr'[s].pollingInterval ]_vars

\* a running session whose route handler received an unparseable message and
\* whose page received a response with an entry of unknown type
C27_Witness ==
    /\ hist.malformed >= 1
    /\ hist.unknown >= 1
    /\ hist.delivered[1] # << >>
    /\ srv[1].ws = "open"
    /\ srv[1].active
    /\ tr[1].isReady
    /\ tr[1].pollingInterval
    /\ page.isListening
    /\ hist.errors[1] = 0
    /\ resp = {}
(***************************************************************************)
(* SpecMute: a started session that captures frames while its answers are  *)
(* spoken                                                                  *)
(***************************************************************************)

MuteInit ==
    /\ variant \in {"part000", "combined"}
    /\ limit = [NoLimit EXCEPT !.events = MuteEvents, !.chunks = MuteChunks]
    /\ page = [PageInit EXCEPT
                  !.isListening = TRUE,
                  !.transcriberRef = 1,
                  !.streamRef = 1,
                  !.audioProcessorRef = 1,
                  !.audioSourceRef = 1,
                  !.audioContextRef = 1]
    /\ \E rate \in BufSampleRates :
          tr = [s \in Sid |->
                  IF s = 1
                  THEN [TrInit EXCEPT !.pc = "live", !.isReady = TRUE,
                                      !.pollingInterval = TRUE, !.trackLive = TRUE,
                                      !.connected = TRUE,
                                      !.sourceSampleRate = rate]
                  ELSE TrInit]
    /\ timers = {}
    /\ req = {}
    /\ resp = {}
    /\ srv = [s \in Sid |->
                 IF s = 1
                 THEN [SrvInit EXCEPT !.active = TRUE, !.ws = "open",
                                      !.isReady = TRUE, !.expiresSet = TRUE]
                 ELSE SrvInit]
    /\ hist = HistInit

MuteNext ==
    \/ PlayTranscript
    \/ SilenceTimerFires
    \/ CaptureSettles
    \/ QueryAnswered
    \/ SynthesisSettles
    \/ PlaybackEnds
    \/ AudioProcess
    \/ ServerAudio
    \/ AudioResponse
    \/ SessionExpires

SpecMute == MuteInit /\ [][MuteNext]_vars

\* C32: when a mute period ends (isPlayingAudio returns to false) the audio
\* buffer is empty, so that no sample captured before or during the mute is
\* part of the first chunk sent after it, whatever the source sample rate.
C32_BufferEmptyAtUnmute ==
    [][(page.isPlayingAudio /\ ~page'.isPlayingAudio)
          => tr'[1].audioBuffer = 0]_vars

\* C33: the pending audio buffer is bounded: when a frame yields at most
\* 16000 samples, fewer than 800 samples are retained after every frame
\* callback, over all frames, the session's loss of readiness and mute
\* periods.
C33_RemainderBelowMinimum ==
    \A s \in Sid :
       resampledLength(FrameSize, tr[s].sourceSampleRate) <= maxSamples
       => /\ tr[s].audioBuffer < minSamples
          /\ hist.lastFrame.sid = s => hist.lastFrame.after < minSamples

\* after an answer was spoken, a frame found a remainder in the buffer and
\* completed a chunk with it
C33_Witness ==
    /\ resampledLength(FrameSize, tr[1].sourceSampleRate) <= maxSamples
    /\ hist.lastClear = "ended"
    /\ hist.lastFrame.outcome = "processed"
    /\ hist.lastFrame.before > 0
    /\ hist.lastFrame.sent >= minSamples
    /\ hist.lastFrame.after = 0

(***************************************************************************)
(* SpecSrv: the route handler answering the requests of any client         *)
(***************************************************************************)

\* POST and GET: part_003 15-50 and 409-420.  The session id is the one the
\* request carries; srv[s] is the connection last registered for it.
ClientRequest ==
    /\ hist.requests < limit.requests
    /\ \E kind \in {"start", "audio", "poll", "stop"}, s \in Sid :
          req' = req \cup {[kind |-> kind, sid |-> s, n |-> hist.requests + 1,
                            samples |-> IF kind = "audio" THEN minSamples ELSE 0]}
    /\ hist' = [hist EXCEPT !.requests = @ + 1]
    /\ UNCHANGED <<variant, limit, page, tr, timers, resp, srv>>

SrvSpecInit ==
    /\ variant = "part000"
    /\ limit = [NoLimit EXCEPT !.requests = SrvRequests, !.turns = SrvTurns]
    /\ Fresh

SrvNext ==
    \/ ClientRequest
    \/ ServerStart
    \/ ServerStartSettles
    \/ WsOpen
    \/ WsBegin
    \/ WsTurn
    \/ WsTermination
    \/ WsErrorMessage
    \/ SessionExpires
    \/ WsClose
    \/ ServerAudio
    \/ ServerPoll
    \/ ServerStop

SpecSrv == SrvSpecInit /\ [][SrvNext]_vars

C37_StartTimeoutLeavesNothingOpen ==
    [][\A a \in resp' \ resp :
          a.kind = "start"
          => /\ a.status = 500
                => /\ ~srv'[a.sid].active
                   /\ srv'[a.sid].ws \in {"closing", "closed"}
             /\ a.status = 200
                => /\ srv'[a.sid].active
                   /\ srv'[a.sid].isReady]_vars

\* C38: a start request for a session id that is already in activeConnections
\* is rejected with status 400 and leaves the existing session's connection,
\* readiness and queued transcripts as they are; no second WebSocket is
\* opened for the id.
C38_SecondStartRejected ==
    [][\A r \in req \ req' :
          (r.kind = "start" /\ srv[r.sid].active)
          => /\ \E a \in resp' \ resp :
                   a.kind = "start" /\ a.sid = r.sid /\ a.status = 400
             /\ srv' = srv]_vars

\* a second start for a ready session with a queued transcript was rejected
C38_Witness ==
    \E a \in resp :
       /\ a.kind = "start"
       /\ a.status = 400
       /\ srv[a.sid].active
       /\ srv[a.sid].isReady
       /\ srv[a.sid].ws = "open"
       /\ srv[a.sid].transcripts # << >>

=============================================================================
